---- MODULE Spec2Model ----
(***************************************************************************)
(* Model of extractor_comprobantes.py: the amount normalizer, the name     *)
(* sanitizer, the line formatter, the duplicate detector, the file intake  *)
(* and the batch loop of main().                                           *)
(*                                                                         *)
(* Python str values are TLA+ strings; TLC evaluates Len, SubSeq and \o on *)
(* them, so every text operation below works character by character.       *)
(* A Python value that need not be a str (a field of the parsed JSON) is a *)
(* tagged record, see Str / None / Num.                                    *)
(***************************************************************************)
EXTENDS FiniteSets, Integers, Sequences, TLC

VARIABLES
    monto_str,      \* limpiar_monto: the argument of the call
    monto_ret,      \* limpiar_monto: the outcome of the call, Pendiente before it
    datos,          \* aplicar_logica_formateo: the argument of the call
    formateo_ret,   \* aplicar_logica_formateo: the outcome of the call
    procesados,     \* detectar_duplicados: the argument of the call
    duplicados_ret, \* detectar_duplicados: the outcome of the call
    api_key,        \* main: whether ANTHROPIC_API_KEY is configured
    archivos_subidos,    \* main: the files of st.file_uploader, in upload order
    archivos_a_procesar, \* main: the list procesar_archivos_cargados returned
    idx,            \* main: how many files of archivos_a_procesar the loop has passed
    datos_extraidos,     \* main: what the last call of the extraction returned
    resultados,     \* main: the result records appended so far
    datos_completos,     \* main: the extracted records appended so far
    duplicados,     \* main: the list detectar_duplicados returned
    output_final,   \* main: the text of the "Formato Sheets" tab
    pc              \* main: where the run of the script is

llamadas == <<monto_str, monto_ret, datos, formateo_ret, procesados, duplicados_ret>>
lote == <<api_key, archivos_subidos, archivos_a_procesar, idx, datos_extraidos, resultados,
          datos_completos, duplicados, output_final, pc>>
vars == <<llamadas, lote>>

(***************************************************************************)
(* Bounds of the model.                                                    *)
(***************************************************************************)
MaxMontoLen == 5
MaxNombreLen == 2
MaxLote == 6
MaxSubidos == 3
MaxEntradas == 3

(***************************************************************************)
(* Python values.                                                          *)
(***************************************************************************)
Str(s) == [t |-> "str", s |-> s, n |-> 0]
None == [t |-> "none", s |-> "", n |-> 0]
Num(n) == [t |-> "int", s |-> "", n |-> n]

\* bool(v): the empty str, None and 0 are falsy
Truthy(v) ==
    CASE v.t = "str" -> v.s # ""
      [] v.t = "none" -> FALSE
      [] v.t = "int" -> v.n # 0

\* the outcome of a call: a returned value, or an exception that propagates
Return(v) == [exc |-> "", ret |-> v]
Raise(e) == [exc |-> e, ret |-> None]
Pendiente == [exc |-> "pendiente", ret |-> None]

(***************************************************************************)
(* Text primitives (str methods and the regular expressions of the code).  *)
(***************************************************************************)
Char(s, i) == SubSeq(s, i, i)

Digits == {"0", "1", "2", "3", "4", "5", "6", "7", "8", "9"}

Whitespace == {" "}

\* s with every character of the set chars deleted
RECURSIVE RemoveChars(_, _)
RemoveChars(s, chars) ==
    IF s = "" THEN ""
    ELSE (IF Head(s) \in chars THEN "" ELSE Head(s)) \o RemoveChars(Tail(s), chars)

\* str.replace(old, new) for a one-character old
RECURSIVE Replace(_, _, _)
Replace(s, old, new) ==
    IF s = "" THEN ""
    ELSE (IF Head(s) = old THEN new ELSE Head(s)) \o Replace(Tail(s), old, new)

\* 'c' in s, for a one-character c
HasChar(s, c) == \E i \in 1..Len(s) : Char(s, i) = c

\* s.rindex(c), 1-based; the caller has checked that c occurs
RIndex(s, c) ==
    CHOOSE i \in 1..Len(s) :
        Char(s, i) = c /\ \A j \in (i + 1)..Len(s) : Char(s, j) # c

\* s.endswith(suf)
EndsWith(s, suf) ==
    Len(s) >= Len(suf) /\ SubSeq(s, Len(s) - Len(suf) + 1, Len(s)) = suf

RECURSIVE LStrip(_)
LStrip(s) == IF s # "" /\ Head(s) \in Whitespace THEN LStrip(Tail(s)) ELSE s

RECURSIVE RStrip(_)
RStrip(s) ==
    IF s # "" /\ Char(s, Len(s)) \in Whitespace
    THEN RStrip(SubSeq(s, 1, Len(s) - 1))
    ELSE s

\* str.strip()
Strip(s) == LStrip(RStrip(s))

(***************************************************************************)
(* limpiar_monto                                                           *)
(***************************************************************************)
\* the character class [$USD€ARS\s] of line 74
SimbolosMoneda == {"$", "U", "S", "D", "€", "A", "R"} \cup Whitespace

\* re.search(r'[.,]\d{2}$', monto)
TieneDecimales(monto) ==
    /\ Len(monto) >= 3
    /\ Char(monto, Len(monto) - 2) \in {".", ","}
    /\ Char(monto, Len(monto) - 1) \in Digits
    /\ Char(monto, Len(monto)) \in Digits

\* NormalizarSeparadores with the earlier separator taken as the decimal one
NormalizarPrimerSeparador(monto) ==
    IF TieneDecimales(monto)
    THEN IF HasChar(monto, ".") /\ HasChar(monto, ",")
         THEN IF RIndex(monto, ".") < RIndex(monto, ",")
              THEN Replace(RemoveChars(monto, {","}), ".", ",")
              ELSE RemoveChars(monto, {"."})
         ELSE IF HasChar(monto, ".")
              THEN Replace(monto, ".", ",")
              ELSE monto
    ELSE RemoveChars(RemoveChars(monto, {"."}), {","})

\* lines 78-96: the separators rewritten
NormalizarSeparadores(monto) ==
    IF TieneDecimales(monto)
    THEN IF HasChar(monto, ".") /\ HasChar(monto, ",")
         THEN IF RIndex(monto, ".") > RIndex(monto, ",")
              THEN Replace(RemoveChars(monto, {","}), ".", ",")
              ELSE RemoveChars(monto, {"."})
         ELSE IF HasChar(monto, ".")
              THEN Replace(monto, ".", ",")
              ELSE monto
    ELSE RemoveChars(RemoveChars(monto, {"."}), {","})

\* lines 100-101: one trailing ",00" removed
QuitarCeros(monto) ==
    IF EndsWith(monto, ",00") THEN SubSeq(monto, 1, Len(monto) - 3) ELSE monto

\* limpiar_monto on a str argument
LimpiarMontoStr(s) ==
    IF s = "" THEN "0"
    ELSE Strip(QuitarCeros(NormalizarSeparadores(RemoveChars(s, SimbolosMoneda))))

\* limpiar_monto on any value: a falsy one returns "0" (line 70), re.sub raises
\* TypeError on a truthy one that is no str (line 74)
limpiar_monto(v) ==
    IF ~Truthy(v) THEN Return(Str("0"))
    ELSE IF v.t = "str" THEN Return(Str(LimpiarMontoStr(v.s)))
    ELSE Raise("TypeError")

(***************************************************************************)
(* limpiar_nombre                                                          *)
(***************************************************************************)
\* a falsy value returns "" (line 52); str.replace on a truthy value that is
\* no str raises AttributeError (line 54)
limpiar_nombre(nombre) ==
    IF ~Truthy(nombre) THEN Return(Str(""))
    ELSE IF nombre.t = "str" THEN Return(Str(Strip(RemoveChars(nombre.s, {","}))))
    ELSE Raise("AttributeError")

(***************************************************************************)
(* aplicar_logica_formateo                                                 *)
(***************************************************************************)
Mayusculas == "ABCDEFGHIJKLMNOPQRSTUVWXYZ"
Minusculas == "abcdefghijklmnopqrstuvwxyz"

\* the lower-case letter of each upper-case one
Minuscula ==
    [c \in {Char(Mayusculas, i) : i \in 1..Len(Mayusculas)} |->
        Char(Minusculas, CHOOSE i \in 1..Len(Mayusculas) : Char(Mayusculas, i) = c)]

LowerChar(c) == IF c \in DOMAIN Minuscula THEN Minuscula[c] ELSE c

\* str.lower()
RECURSIVE Lower(_)
Lower(s) == IF s = "" THEN "" ELSE LowerChar(Head(s)) \o Lower(Tail(s))

\* sub in s
Contains(sub, s) ==
    \E i \in 0..(Len(s) - Len(sub)) : SubSeq(s, i + 1, i + Len(sub)) = sub

\* str(n) for an int n >= 0
RECURSIVE Decimal(_)
Decimal(n) ==
    IF n < 10 THEN Char("0123456789", n + 1)
    ELSE Decimal(n \div 10) \o Char("0123456789", (n % 10) + 1)

\* str(v), as an f-string formats a value
Format(v) ==
    CASE v.t = "str" -> v.s
      [] v.t = "none" -> "None"
      [] v.t = "int" -> Decimal(v.n)

\* a parsed JSON value: an object (a dict of Python values), a text, an array
\* of texts, or anything else (a number, true, false, null)
JDict(d) == [j |-> "dict", d |-> d, s |-> "", l |-> <<>>]
JStr(s) == [j |-> "str", d |-> <<>>, s |-> s, l |-> <<>>]
JList(l) == [j |-> "list", d |-> <<>>, s |-> "", l |-> l]
JOtro == [j |-> "otro", d |-> <<>>, s |-> "", l |-> <<>>]

\* dict.get(clave, "")
Get(d, clave) == IF clave \in DOMAIN d THEN d[clave] ELSE Str("")

\* ResolverEmisor with the date and time tried before the operation id
ResolverEmisorFechaPrimero(emisor, id_operacion, fecha, horario) ==
    IF emisor.s # "" THEN emisor
    ELSE IF Truthy(fecha) /\ Truthy(horario)
         THEN Str(Format(fecha) \o " " \o Format(horario))
    ELSE IF Truthy(id_operacion) THEN id_operacion
    ELSE Str("SIN_EMISOR")

\* lines 311-317: the fallbacks of an empty sanitized emisor
ResolverEmisor(emisor, id_operacion, fecha, horario) ==
    IF emisor.s # "" THEN emisor
    ELSE IF Truthy(id_operacion) THEN id_operacion
    ELSE IF Truthy(fecha) /\ Truthy(horario)
         THEN Str(Format(fecha) \o " " \o Format(horario))
         ELSE Str("SIN_EMISOR")

\* EsJessica with the second substring forgotten
EsJessicaSoloNombre(destinatario_lower) == Contains("jessica", destinatario_lower)

\* lines 323-325
EsJessica(destinatario_lower) ==
    Contains("jessica", destinatario_lower) /\ Contains("giuliani", destinatario_lower)

EsCredibank(destinatario_lower) == Contains("credibank", destinatario_lower)

\* lines 327-332
Linea(destinatario, emisor, monto) ==
    IF EsJessica(Lower(destinatario)) \/ EsCredibank(Lower(destinatario))
    THEN "\"" \o Format(emisor) \o "\",,,,,,,," \o monto
    ELSE monto

\* the returned tuple (linea_formateada, nombre_emisor, id_operacion)
Tupla(linea, emisor, id_operacion) ==
    [linea |-> linea, emisor |-> emisor, id_operacion |-> id_operacion]

\* aplicar_logica_formateo(datos): the statements in the order of the code, the
\* first exception ending the call. datos.get fails on a value that is no dict
\* (line 300), .strip() on a destinatario that is no str (line 302)
aplicar_logica_formateo(dat) ==
    IF dat.j # "dict" THEN Raise("AttributeError")
    ELSE LET destinatario_raw == Get(dat.d, "destinatario")
             id_operacion == Get(dat.d, "id_operacion")
             nombre == limpiar_nombre(Get(dat.d, "emisor"))
             monto == limpiar_monto(Get(dat.d, "monto"))
         IN  IF destinatario_raw.t # "str" THEN Raise("AttributeError")
             ELSE IF nombre.exc # "" THEN nombre
             ELSE IF monto.exc # "" THEN monto
             ELSE LET emisor == ResolverEmisor(nombre.ret, id_operacion,
                                               Get(dat.d, "fecha"), Get(dat.d, "horario"))
                  IN  Return(Tupla(Linea(Strip(destinatario_raw.s), emisor, monto.ret.s),
                                   emisor, id_operacion))

(***************************************************************************)
(* detectar_duplicados                                                     *)
(***************************************************************************)
\* DetectarDesde without the test of line 354: every repeat is appended
RECURSIVE DetectarSinControl(_, _, _, _)
DetectarSinControl(items, i, ids_vistos, dups) ==
    IF i > Len(items) THEN Return(dups)
    ELSE IF items[i].j # "dict" THEN Raise("AttributeError")
    ELSE LET id_op == Get(items[i].d, "id_operacion")
         IN  IF ~Truthy(id_op)
             THEN DetectarSinControl(items, i + 1, ids_vistos, dups)
             ELSE IF id_op \in ids_vistos
             THEN DetectarSinControl(items, i + 1, ids_vistos, Append(dups, id_op))
             ELSE DetectarSinControl(items, i + 1, ids_vistos \cup {id_op}, dups)

\* the loop of lines 350-357 from item i on; ids_vistos is the set of keys of
\* the dict of the code, dups the list duplicados of the code
RECURSIVE DetectarDesde(_, _, _, _)
DetectarDesde(items, i, ids_vistos, dups) ==
    IF i > Len(items) THEN Return(dups)
    ELSE IF items[i].j # "dict" THEN Raise("AttributeError")
    ELSE LET id_op == Get(items[i].d, "id_operacion")
         IN  IF ~Truthy(id_op)
             THEN DetectarDesde(items, i + 1, ids_vistos, dups)
             ELSE IF id_op \in ids_vistos
             THEN IF \E k \in 1..Len(dups) : dups[k] = id_op
                  THEN DetectarDesde(items, i + 1, ids_vistos, dups)
                  ELSE DetectarDesde(items, i + 1, ids_vistos, Append(dups, id_op))
             ELSE DetectarDesde(items, i + 1, ids_vistos \cup {id_op}, dups)

detectar_duplicados(items) == DetectarDesde(items, 1, {}, <<>>)

(***************************************************************************)
(* extraer_archivos_zip and procesar_archivos_cargados                     *)
(***************************************************************************)
\* the bytes of a file: those of a receipt (recibo names which), or those of a
\* ZIP archive: abre says whether zipfile.ZipFile opens them, entradas is
\* zip_ref.filelist, and roto is the position of an entry whose read raises
\* (0 when every entry reads)
Imagen(recibo) == [recibo |-> recibo, abre |-> FALSE, entradas |-> <<>>, roto |-> 0]
Zip(entradas, roto) == [recibo |-> 0, abre |-> TRUE, entradas |-> entradas, roto |-> roto]

\* the tuples (nombre_archivo, contenido, tipo_mime)
Archivo(nombre, contenido, tipo_mime) ==
    [nombre |-> nombre, contenido |-> contenido, tipo_mime |-> tipo_mime]

\* the part of a path after its last "/"
Basename(nombre) ==
    IF HasChar(nombre, "/")
    THEN SubSeq(nombre, RIndex(nombre, "/") + 1, Len(nombre))
    ELSE nombre

\* Path(nombre).suffix: from the last "." of the name on, when that "." is
\* neither its first nor its last character
Suffix(nombre) ==
    LET name == Basename(nombre)
    IN  IF HasChar(name, ".") /\ RIndex(name, ".") > 1 /\ RIndex(name, ".") < Len(name)
        THEN SubSeq(name, RIndex(name, "."), Len(name))
        ELSE ""

\* lines 386-394
TipoMime(nombre) ==
    LET extension == Lower(Suffix(nombre))
    IN  IF extension \in {".jpg", ".jpeg"} THEN "image/jpeg"
        ELSE IF extension = ".png" THEN "image/png"
        ELSE IF extension = ".pdf" THEN "application/pdf"
        ELSE "application/octet-stream"

\* the loop of lines 380-396 from entry i on; the exception of a read ends it
\* with what was collected (lines 397-400)
RECURSIVE ExtraerDesde(_, _, _)
ExtraerDesde(zip, i, archivos) ==
    IF i > Len(zip.entradas) THEN archivos
    ELSE IF zip.entradas[i].is_dir THEN ExtraerDesde(zip, i + 1, archivos)
    ELSE IF zip.roto = i THEN archivos
    ELSE ExtraerDesde(zip, i + 1,
            Append(archivos, Archivo(zip.entradas[i].filename, zip.entradas[i].contenido,
                                     TipoMime(zip.entradas[i].filename))))

\* bytes that are no archive raise in the constructor: the list is empty
extraer_archivos_zip(archivo_zip) ==
    IF ~archivo_zip.abre THEN <<>> ELSE ExtraerDesde(archivo_zip, 1, <<>>)

\* the loop of lines 415-425 from upload i on
RECURSIVE ProcesarDesde(_, _, _)
ProcesarDesde(subidos, i, archivos_procesados) ==
    IF i > Len(subidos) THEN archivos_procesados
    ELSE IF EndsWith(Lower(subidos[i].name), ".zip")
    THEN ProcesarDesde(subidos, i + 1,
            archivos_procesados \o extraer_archivos_zip(subidos[i].contenido))
    ELSE ProcesarDesde(subidos, i + 1,
            Append(archivos_procesados,
                   Archivo(subidos[i].name, subidos[i].contenido, subidos[i].type)))

\* the uploads that are archives (zips = TRUE) or that are not, in upload order
Filtrar(subidos, zips) ==
    SelectSeq(subidos, LAMBDA f : EndsWith(Lower(f.name), ".zip") = zips)

\* procesar_archivos_cargados with the archives expanded after the loose files
ProcesarSueltosPrimero(subidos) ==
    ProcesarDesde(Filtrar(subidos, FALSE) \o Filtrar(subidos, TRUE), 1, <<>>)

procesar_archivos_cargados(subidos) == ProcesarDesde(subidos, 1, <<>>)

(***************************************************************************)
(* extraer_datos_con_vision_api                                            *)
(***************************************************************************)
Claves == {"emisor", "monto", "destinatario", "id_operacion", "fecha", "horario"}

\* the record every failure path returns (lines 142-149, 163-164, 251-279)
Defecto ==
    JDict([emisor |-> Str(""), monto |-> Str("0"), destinatario |-> Str(""),
           id_operacion |-> Str(""), fecha |-> Str(""), horario |-> Str("")])

\* lines 242-247 on the value json.loads returned: a dict gets each missing key
\* set to ""; on a text or an array "clave not in datos" is a substring or an
\* element test and the assignment of a missing key raises TypeError, as the
\* test itself does on any other value; except Exception returns the default
Validar(valor) ==
    CASE valor.j = "dict" ->
            JDict([clave \in Claves \cup DOMAIN valor.d |-> Get(valor.d, clave)])
      [] valor.j = "str" ->
            IF \A clave \in Claves : Contains(clave, valor.s) THEN valor ELSE Defecto
      [] valor.j = "list" ->
            IF \A clave \in Claves : \E k \in 1..Len(valor.l) : valor.l[k] = clave
            THEN valor ELSE Defecto
      [] valor.j = "otro" -> Defecto

\* what the outside world does during one call: paso names the step that
\* fails ("pdf_error": pdf_a_imagen_png raises; "api_error": anthropic.APIError;
\* "error": any other exception; "no_json": json.loads raises), or "json" when
\* json.loads returns valor
Respuesta(paso, valor) == [paso |-> paso, valor |-> valor]

EsPdf(archivo) ==
    archivo.tipo_mime = "application/pdf" \/ EndsWith(Lower(archivo.nombre), ".pdf")

extraer_datos_con_vision_api(archivo, key, respuesta) ==
    IF ~key THEN Defecto
    ELSE IF respuesta.paso = "json" THEN Validar(respuesta.valor)
    ELSE Defecto

(***************************************************************************)
(* main: the run that the button "Procesar Comprobantes" starts            *)
(***************************************************************************)
Resultado(archivo, tupla, extraidos) ==
    [archivo |-> archivo.nombre, linea |-> tupla.linea, emisor |-> tupla.emisor,
     id_operacion |-> tupla.id_operacion, datos_raw |-> extraidos]

\* Guardar with the new record put first
GuardarAlFrente(lista, x) == <<x>> \o lista

\* lines 551-552: list.append
Guardar(lista, x) == Append(lista, x)

\* sep.join(lineas)
RECURSIVE Join(_, _)
Join(lineas, sep) ==
    IF Len(lineas) = 0 THEN ""
    ELSE IF Len(lineas) = 1 THEN lineas[1]
    ELSE lineas[1] \o sep \o Join(Tail(lineas), sep)

(***************************************************************************)
(* The variables of the calls and of the run, at rest.                     *)
(***************************************************************************)
SinMonto == monto_str = None /\ monto_ret = Pendiente
SinFormateo == datos = <<>> /\ formateo_ret = Pendiente
SinDuplicados == procesados = <<>> /\ duplicados_ret = Pendiente
SinLote ==
    /\ api_key = FALSE /\ archivos_subidos = <<>> /\ archivos_a_procesar = <<>>
    /\ idx = 0 /\ datos_extraidos = JOtro /\ resultados = <<>> /\ datos_completos = <<>> /\ duplicados = <<>>
    /\ output_final = "" /\ pc = "reposo"

(***************************************************************************)
(* The calls of limpiar_monto: every text of at most MaxMontoLen           *)
(* characters over MontoAlphabet, and the values that are no str.          *)
(***************************************************************************)
MontoAlphabet == {"0", "1", ".", ",", "$"}

RECURSIVE Textos(_, _)
Textos(alphabet, n) ==
    IF n = 0 THEN {""}
    ELSE {""} \cup {c \o s : c \in alphabet, s \in Textos(alphabet, n - 1)}

MontoValues ==
    {Str(s) : s \in Textos(MontoAlphabet, MaxMontoLen)} \cup {None, Num(0), Num(1500)}

InitMonto ==
    /\ monto_str \in MontoValues
    /\ monto_ret = Pendiente
    /\ SinFormateo /\ SinDuplicados /\ SinLote

LlamarLimpiarMonto ==
    /\ monto_ret.exc = "pendiente"
    /\ monto_ret' = limpiar_monto(monto_str)
    /\ UNCHANGED <<monto_str, datos, formateo_ret, procesados, duplicados_ret, lote>>

NextMonto == LlamarLimpiarMonto

SpecMonto == InitMonto /\ [][NextMonto]_vars

(***************************************************************************)
(* The calls of aplicar_logica_formateo: every record of the six fields    *)
(* over the values below, a field being absent where Ausente is drawn.     *)
(***************************************************************************)
Ausente == [t |-> "ausente", s |-> "", n |-> 0]

\* the dict that holds the fields of f drawn as present
Dict(f) == [k \in {c \in DOMAIN f : f[c] # Ausente} |-> f[k]]

NombreAlphabet == {",", " ", "a"}

EmisorValues ==
    {Str(s) : s \in Textos(NombreAlphabet, MaxNombreLen)} \cup {None, Num(7)}

DestinatarioValues ==
    {Str("JESSICA ANDREA GIULIANI"), Str("jessica andrea giuliani"),
     Str("Giuliani, Jessica"), Str("Jessica Perez"), Str("Banco Galicia"),
     Str("Credibank SA"), Str(" CREDIBANK"), Str(""), None}

DatosValues ==
    {JDict(Dict(f)) : f \in
        [emisor : EmisorValues,
         monto : {Str("$1.500,00"), Str(""), Num(1500)},
         destinatario : DestinatarioValues,
         id_operacion : {Str(""), Str("789"), Str("7,8"), Num(789), Ausente},
         fecha : {Str(""), Str("2024-02-11")},
         horario : {Str(""), Str("14:30"), None}]}

InitFormateo ==
    /\ datos \in DatosValues
    /\ formateo_ret = Pendiente
    /\ SinMonto /\ SinDuplicados /\ SinLote

LlamarAplicarLogicaFormateo ==
    /\ formateo_ret.exc = "pendiente"
    /\ formateo_ret' = aplicar_logica_formateo(datos)
    /\ UNCHANGED <<monto_str, monto_ret, datos, procesados, duplicados_ret, lote>>

NextFormateo == LlamarAplicarLogicaFormateo

SpecFormateo == InitFormateo /\ [][NextFormateo]_vars

(***************************************************************************)
(* The calls of detectar_duplicados: every batch of at most MaxLote        *)
(* records, told apart by their id_operacion alone.                        *)
(***************************************************************************)
IdValues == {Str(""), Str("A"), Str("B"), Str("C")}

RECURSIVE Lotes(_)
Lotes(n) ==
    IF n = 0 THEN {<<>>}
    ELSE {<<>>} \cup {<<JDict([id_operacion |-> id])>> \o l : id \in IdValues, l \in Lotes(n - 1)}

InitDuplicados ==
    /\ procesados \in Lotes(MaxLote)
    /\ duplicados_ret = Pendiente
    /\ SinMonto /\ SinFormateo /\ SinLote

LlamarDetectarDuplicados ==
    /\ duplicados_ret.exc = "pendiente"
    /\ duplicados_ret' = detectar_duplicados(procesados)
    /\ UNCHANGED <<monto_str, monto_ret, datos, formateo_ret, procesados, lote>>

NextDuplicados == LlamarDetectarDuplicados

SpecDuplicados == InitDuplicados /\ [][NextDuplicados]_vars

(***************************************************************************)
(* The run of main() on a click of the button.                             *)
(***************************************************************************)
\* what an uploaded file is: st.file_uploader's name, type and bytes
Subido(name, type, contenido) == [name |-> name, type |-> type, contenido |-> contenido]

Entrada(filename, is_dir, contenido) ==
    [filename |-> filename, is_dir |-> is_dir, contenido |-> contenido]

\* lines 505-530: the click. Without a key, or with no file after the archives
\* are expanded, the run ends with an error message
Procesar ==
    /\ pc = "esperando"
    /\ archivos_subidos # <<>>
    /\ IF ~api_key
       THEN /\ pc' = "sin_api_key"
            /\ UNCHANGED archivos_a_procesar
       ELSE /\ archivos_a_procesar' = procesar_archivos_cargados(archivos_subidos)
            /\ pc' = IF archivos_a_procesar' = <<>> THEN "sin_archivos" ELSE "procesando"
    /\ UNCHANGED <<llamadas, api_key, archivos_subidos, idx, datos_extraidos, resultados,
                   datos_completos, duplicados, output_final>>

\* the texts the receipts of the model show
Campos(recibo) ==
    CASE recibo = 1 ->
            [emisor |-> Str("Juan Perez, hijo"), monto |-> Str("$1.500,00"),
             destinatario |-> Str("Credibank SA"), id_operacion |-> Str("789"),
             fecha |-> Str("2024-02-11"), horario |-> Str("14:30")]
      [] recibo = 2 ->
            [emisor |-> Str(""), monto |-> Str("2.000"),
             destinatario |-> Str("Banco Galicia"), id_operacion |-> Str("789"),
             fecha |-> Str("2024-02-12"), horario |-> Str("09:15:00")]
      [] OTHER ->
            [emisor |-> Str("Ana"), monto |-> Str("12,50"),
             destinatario |-> Str("jessica GIULIANI"), id_operacion |-> Str(""),
             fecha |-> Str(""), horario |-> Str("")]

\* d without the keys of the set claves, and d with clave set to v
SinClaves(d, claves) == [k \in DOMAIN d \ claves |-> d[k]]
Con(d, clave, v) == [k \in DOMAIN d \cup {clave} |-> IF k = clave THEN v ELSE d[k]]

\* the values json.loads may return for a receipt: its fields; its fields with
\* keys left out; with a null and a key nobody asked for; with the amount as
\* a number; with a null recipient; a value that is no object; a text that
\* names the six keys
Jsons(recibo) ==
    {JDict(Campos(recibo)),
     JDict(SinClaves(Campos(recibo), {"id_operacion", "horario"})),
     JDict(Con(Con(Campos(recibo), "emisor", None), "nota", Str("ilegible"))),
     JDict(Con(Campos(recibo), "monto", Num(1500))),
     JDict(Con(Campos(recibo), "destinatario", None)),
     JOtro,
     JList(<<"emisor">>),
     JStr("emisor monto destinatario id_operacion fecha horario")}

\* what may happen during the call for one file
Respuestas(archivo) ==
    {Respuesta(paso, JOtro) : paso \in {"api_error", "error", "no_json"}}
        \cup (IF EsPdf(archivo) THEN {Respuesta("pdf_error", JOtro)} ELSE {})
        \cup {Respuesta("json", valor) : valor \in Jsons(archivo.contenido.recibo)}

\* lines 532-552: one turn of the loop. An exception of aplicar_logica_formateo
\* is caught nowhere: it ends the run with nothing appended
ProcesarComprobante ==
    /\ pc = "procesando"
    /\ idx < Len(archivos_a_procesar)
    /\ \E respuesta \in Respuestas(archivos_a_procesar[idx + 1]) :
        LET archivo == archivos_a_procesar[idx + 1]
            extraidos == extraer_datos_con_vision_api(archivo, api_key, respuesta)
            formateo == aplicar_logica_formateo(extraidos)
        IN  /\ datos_extraidos' = extraidos
            /\ IF formateo.exc # ""
               THEN /\ pc' = "abortado"
                    /\ UNCHANGED <<idx, resultados, datos_completos>>
               ELSE /\ resultados' = Guardar(resultados,
                                             Resultado(archivo, formateo.ret, extraidos))
                    /\ datos_completos' = Guardar(datos_completos, extraidos)
                    /\ idx' = idx + 1
                    /\ pc' = pc
    /\ UNCHANGED <<llamadas, api_key, archivos_subidos, archivos_a_procesar,
                   duplicados, output_final>>

\* lines 554-611: after the loop
MostrarResultados ==
    /\ pc = "procesando"
    /\ idx = Len(archivos_a_procesar)
    /\ LET dups == detectar_duplicados(datos_completos)
       IN  IF dups.exc # ""
           THEN pc' = "abortado" /\ UNCHANGED <<duplicados, output_final>>
           ELSE /\ duplicados' = dups.ret
                /\ output_final' = Join([i \in 1..Len(resultados) |-> resultados[i].linea], "\n")
                /\ pc' = "mostrado"
    /\ UNCHANGED <<llamadas, api_key, archivos_subidos, archivos_a_procesar, idx,
                   datos_extraidos, resultados, datos_completos>>

\* the uploads of the runs: at most MaxSubidos of these, in any order
SubidosLote ==
    {Subido("a.png", "image/png", Imagen(1)),
     Subido("b.pdf", "application/pdf", Imagen(2)),
     Subido("c.zip", "application/zip",
            Zip(<<Entrada("m1.jpg", FALSE, Imagen(3))>>, 0))}

RECURSIVE Secuencias(_, _)
Secuencias(S, n) ==
    IF n = 0 THEN {<<>>}
    ELSE {<<>>} \cup {<<x>> \o s : x \in S, s \in Secuencias(S, n - 1)}

LoteEnReposo ==
    /\ archivos_a_procesar = <<>> /\ idx = 0 /\ datos_extraidos = JOtro
    /\ resultados = <<>> /\ datos_completos = <<>> /\ duplicados = <<>>
    /\ output_final = "" /\ pc = "esperando"

Init ==
    /\ api_key \in BOOLEAN
    /\ archivos_subidos \in Secuencias(SubidosLote, MaxSubidos)
    /\ LoteEnReposo
    /\ SinMonto /\ SinFormateo /\ SinDuplicados

Next == Procesar \/ ProcesarComprobante \/ MostrarResultados

Spec == Init /\ [][Next]_vars

(***************************************************************************)
(* The intake alone: the click on every upload sequence of at most         *)
(* MaxSubidos files, archives of at most MaxEntradas entries among them.   *)
(***************************************************************************)
\* entry i of the archives of the model: a file, a directory, a file in a
\* directory, and so on
EntradaN(i) ==
    CASE i % 3 = 1 -> Entrada("m" \o Decimal(i) \o ".png", FALSE, Imagen(1))
      [] i % 3 = 2 -> Entrada("d" \o Decimal(i) \o "/", TRUE, Imagen(0))
      [] i % 3 = 0 -> Entrada("sub/m" \o Decimal(i) \o ".PDF", FALSE, Imagen(2))

\* the archive of k entries whose entry roto does not read
ZipN(k, roto) ==
    Subido("z" \o Decimal(k) \o Decimal(roto) \o (IF k % 2 = 1 THEN ".ZIP" ELSE ".zip"),
           "application/zip", Zip([i \in 1..k |-> EntradaN(i)], roto))

SubidosIntake ==
    {Subido("a.png", "image/png", Imagen(1)),
     Subido("b.pdf", "application/pdf", Imagen(2)),
     Subido("falso.zip", "application/zip", Imagen(0))}
        \cup {ZipN(0, 0)} \cup {ZipN(MaxEntradas, roto) : roto \in 0..MaxEntradas}

InitIntake ==
    /\ api_key = TRUE
    /\ archivos_subidos \in Secuencias(SubidosIntake, MaxSubidos)
    /\ LoteEnReposo
    /\ SinMonto /\ SinFormateo /\ SinDuplicados

NextIntake == Procesar

SpecIntake == InitIntake /\ [][NextIntake]_vars

(***************************************************************************)
(* Properties.                                                             *)
(***************************************************************************)
\* the id_operacion of record i of the batch handed to detectar_duplicados
IdDe(i) == Get(procesados[i].d, "id_operacion")

Apariciones(id) == {i \in 1..Len(procesados) : IdDe(i) = id}

\* the position of the second record that carries id
SegundaAparicion(id) ==
    CHOOSE i \in Apariciones(id) : Cardinality({k \in Apariciones(id) : k < i}) = 1

\* C3: detectar_duplicados returns exactly the non-empty ids that occur two or
\* more times in the batch, each listed once, in the order of the positions of
\* their second occurrences; an empty id or one that occurs once is not listed.
C3_DuplicadosExactos ==
    duplicados_ret.exc # "pendiente" =>
        LET ret == duplicados_ret.ret
        IN  /\ duplicados_ret.exc = ""
            /\ {ret[k] : k \in 1..Len(ret)} =
                   {IdDe(i) : i \in {n \in 1..Len(procesados) :
                                        /\ IdDe(n) # Str("")
                                        /\ Cardinality(Apariciones(IdDe(n))) >= 2}}
            /\ \A k, l \in 1..Len(ret) :
                   k < l => /\ ret[k] # ret[l]
                            /\ SegundaAparicion(ret[k]) < SegundaAparicion(ret[l])

\* a batch where the id first seen second is the first confirmed, and where an
\* empty id and an id seen three times occur
C3_Witness ==
    /\ duplicados_ret = Return(<<Str("B"), Str("A")>>)
    /\ Len(procesados) = 6
    /\ IdDe(1) = Str("A") /\ IdDe(2) = Str("B") /\ IdDe(3) = Str("B")
    /\ IdDe(4) = Str("") /\ IdDe(5) = Str("A") /\ IdDe(6) = Str("B")

\* the sanitized emisor of the record handed to aplicar_logica_formateo: its
\* commas removed and the result trimmed, the empty text for a null
EmisorSaneado ==
    LET v == Get(datos.d, "emisor")
    IN  IF v.t = "str" THEN Strip(RemoveChars(v.s, {","})) ELSE ""

\* a field that holds something: neither the empty text nor a null
NoVacio(v) == v # Str("") /\ v # None

\* C4: the resolved emitter is the first satisfied step of the chain sanitized
\* emisor, id_operacion verbatim, "{fecha} {horario}" when both are non-empty,
\* "SIN_EMISOR"; it is never the empty text.
C4_CadenaEmisor ==
    formateo_ret.exc = "" =>
        LET emisor == formateo_ret.ret.emisor
            id_operacion == Get(datos.d, "id_operacion")
            fecha == Get(datos.d, "fecha")
            horario == Get(datos.d, "horario")
        IN  /\ emisor # Str("")
            /\ emisor =
                  IF EmisorSaneado # "" THEN Str(EmisorSaneado)
                  ELSE IF NoVacio(id_operacion) THEN id_operacion
                  ELSE IF NoVacio(fecha) /\ NoVacio(horario)
                       THEN Str(fecha.s \o " " \o horario.s)
                  ELSE Str("SIN_EMISOR")

\* an emisor of commas and blanks only, no id: the date and time are used
C4_Witness ==
    /\ formateo_ret.exc = ""
    /\ Get(datos.d, "emisor") = Str(", ")
    /\ Get(datos.d, "id_operacion") = Str("")
    /\ formateo_ret.ret.emisor = Str("2024-02-11 14:30")

\* the routed line of an emitter and an amount: the emitter quoted, eight
\* commas, the amount
LineaEnrutada(emisor, monto) == "\"" \o emisor \o "\"" \o ",,,,,,,," \o monto

\* whether a recipient is one of the routed ones, letter case aside
Enrutado(destinatario) ==
    LET d == Lower(destinatario)
    IN  (Contains("jessica", d) /\ Contains("giuliani", d)) \/ Contains("credibank", d)

\* C5: the line is the routed one exactly when the recipient, letter case
\* aside, contains "jessica" and "giuliani", or contains "credibank"; for every
\* other recipient, the empty one included, it is the bare normalized amount.
C5_VarianteSegunDestinatario ==
    formateo_ret.exc = "" =>
        LET linea == formateo_ret.ret.linea
            monto == limpiar_monto(Get(datos.d, "monto")).ret.s
            enrutada == LineaEnrutada(Format(formateo_ret.ret.emisor), monto)
        IN  /\ Enrutado(Get(datos.d, "destinatario").s) <=> linea = enrutada
            /\ ~Enrutado(Get(datos.d, "destinatario").s) <=> linea = monto

\* the two substrings in the other order and in mixed case: routed
C5_Witness ==
    /\ formateo_ret.exc = ""
    /\ Get(datos.d, "destinatario") = Str("Giuliani, Jessica")
    /\ Get(datos.d, "emisor") = Str("a")
    /\ formateo_ret.ret.linea = "\"a\",,,,,,,,1500"

\* what the extraction can return for the file at position i of the batch
ExtraccionesPosibles(i) ==
    {extraer_datos_con_vision_api(archivos_a_procesar[i], api_key, r) :
        r \in Respuestas(archivos_a_procesar[i])}

\* the lines of the results up to position n, each followed by a line break
RECURSIVE LineasHasta(_)
LineasHasta(n) ==
    IF n = 0 THEN "" ELSE LineasHasta(n - 1) \o resultados[n].linea \o "\n"

C2_LoteNuncaAbortado ==
    /\ pc # "abortado"
    /\ pc = "mostrado" => Len(resultados) = Len(archivos_a_procesar)
    /\ \A i \in 1..Len(resultados) :
          resultados[i].datos_raw = Defecto =>
              resultados[i].linea = "0" /\ resultados[i].emisor = Str("SIN_EMISOR")

\* the characters of a text
Caracteres(s) == {Char(s, i) : i \in 1..Len(s)}

\* C6: limpiar_monto returns a canonical monetary text for every text: no
\* currency symbol, no ".", at most one "," and no ",00" at the end.
C6_MontoCanonico ==
    (monto_ret.exc = "" /\ monto_str.t = "str") =>
        LET r == monto_ret.ret.s
        IN  /\ Caracteres(r) \cap (SimbolosMoneda \cup {"."}) = {}
            /\ Cardinality({i \in 1..Len(r) : Char(r, i) = ","}) <= 1
            /\ ~EndsWith(r, ",00")

\* C7: limpiar_monto applied to its own result returns that result.
C7_Idempotente ==
    monto_ret.exc = "" => limpiar_monto(monto_ret.ret) = monto_ret

\* C8: limpiar_monto returns a text, and never raises, for every monto the
\* extraction hands over; for the empty one it returns "0".
C8_MontoTotal ==
    datos_extraidos.j = "dict" =>
        LET r == limpiar_monto(Get(datos_extraidos.d, "monto"))
        IN  /\ r.exc = "" /\ r.ret.t = "str"
            /\ Get(datos_extraidos.d, "monto") = Str("") => r.ret = Str("0")

\* C9: every record extraer_datos_con_vision_api returns has exactly the six
\* keys, each with a text as its value.
C9_SeisClavesTexto ==
    pc \in {"procesando", "abortado", "mostrado"} /\ (idx > 0 \/ pc = "abortado") =>
        /\ datos_extraidos.j = "dict"
        /\ DOMAIN datos_extraidos.d = Claves
        /\ \A clave \in Claves : datos_extraidos.d[clave].t = "str"

\* whether upload i is taken as an archive
EsZip(i) == EndsWith(Lower(archivos_subidos[i].name), ".zip")

\* the members of the archive uploaded at position i that the intake can
\* read: none when the bytes do not open as an archive, otherwise the entries
\* that are no directories, in listing order, up to the first that fails to read
MiembrosLegibles(i) ==
    LET zip == archivos_subidos[i].contenido
        n == Len(zip.entradas)
        corte == IF zip.roto \in 1..n /\ ~zip.entradas[zip.roto].is_dir
                 THEN zip.roto ELSE n + 1
        legibles == {k \in 1..n : ~zip.entradas[k].is_dir /\ k < corte}
        Orden[m \in 0..n] ==
            IF m = 0 THEN <<>>
            ELSE IF m \in legibles THEN Append(Orden[m - 1], zip.entradas[m].filename)
            ELSE Orden[m - 1]
    IN  IF zip.abre THEN Orden[n] ELSE <<>>

\* the names that upload i brings into the batch
Aporte(i) ==
    IF EsZip(i) THEN MiembrosLegibles(i) ELSE <<archivos_subidos[i].name>>

\* the names, in upload order, that the uploads 1..n of the set S bring
RECURSIVE AportesDe(_, _)
AportesDe(n, S) ==
    IF n = 0 THEN <<>>
    ELSE AportesDe(n - 1, S) \o (IF n \in S THEN Aporte(n) ELSE <<>>)

Subidas == 1..Len(archivos_subidos)
Zips == {i \in Subidas : EsZip(i)}

NombresAProcesar == [i \in 1..Len(archivos_a_procesar) |-> archivos_a_procesar[i].nombre]

Expandido == pc \in {"procesando", "sin_archivos"}

\* C10 as stated: the loose files first, in upload order, then the members of
\* the archives in each archive's listing order.
C10_SueltosPrimero ==
    Expandido =>
        NombresAProcesar =
            AportesDe(Len(archivos_subidos), Subidas \ Zips)
                \o AportesDe(Len(archivos_subidos), Zips)

\* C10 as amended: the files come in upload order, each archive replaced at
\* its own upload position by its readable members in listing order.
C10_EnOrdenDeCarga ==
    Expandido =>
        NombresAProcesar = AportesDe(Len(archivos_subidos), Subidas)

\* an archive of two readable members uploaded between two loose files
C10_Witness ==
    /\ pc = "procesando"
    /\ Len(archivos_subidos) = 3
    /\ ~EsZip(1) /\ EsZip(2) /\ ~EsZip(3)
    /\ archivos_subidos[1].name # archivos_subidos[3].name
    /\ Len(MiembrosLegibles(2)) = 2
    /\ NombresAProcesar = <<archivos_subidos[1].name>> \o MiembrosLegibles(2)
                              \o <<archivos_subidos[3].name>>

\* the number of commas of a text
Comas(s) == Cardinality({i \in 1..Len(s) : Char(s, i) = ","})

\* the first comma-separated field of a text: what precedes its first comma
PrimerCampo(s) ==
    IF HasChar(s, ",")
    THEN SubSeq(s, 1, (CHOOSE i \in 1..Len(s) :
                          /\ Char(s, i) = ","
                          /\ \A j \in 1..(i - 1) : Char(s, j) # ",") - 1)
    ELSE s

\* C11: in every routed line the quoted emitter is the first comma-separated
\* field and exactly eight commas precede the start of the amount: the resolved
\* emitter holds no comma, whichever step of the chain produced it.
C11_OchoComas ==
    (formateo_ret.exc = "" /\ Enrutado(Get(datos.d, "destinatario").s)) =>
        LET linea == formateo_ret.ret.linea
            emisor == Format(formateo_ret.ret.emisor)
            monto == limpiar_monto(Get(datos.d, "monto")).ret.s
        IN  /\ PrimerCampo(linea) = "\"" \o emisor \o "\""
            /\ Comas(SubSeq(linea, 1, Len(linea) - Len(monto))) = 8
            /\ ~HasChar(emisor, ",")

\* the positions of the separators "." and "," of a text
Separadores(m) == {i \in 1..Len(m) : Char(m, i) \in {".", ","}}

\* the position of the last separator of a text that has one
UltimoSeparador(m) ==
    CHOOSE i \in Separadores(m) : \A j \in Separadores(m) : j <= i

\* a text of digits and separators ends in a separator and exactly two digits
TerminaEnDosDigitos(m) ==
    Separadores(m) # {} /\ Len(m) - UltimoSeparador(m) = 2

\* a text with every occurrence of the separator decimal written "," and every
\* other separator removed; with decimal = "" every separator is removed
RECURSIVE Reescrito(_, _)
Reescrito(m, decimal) ==
    IF m = "" THEN ""
    ELSE LET c == Char(m, 1)
             resto == Reescrito(SubSeq(m, 2, Len(m)), decimal)
         IN  IF c = decimal THEN "," \o resto
             ELSE IF c \in {".", ","} THEN resto
             ELSE c \o resto

\* the two-trailing-digit rule on a text of digits and separators: the later
\* separator is the decimal marker when two digits follow it, no separator is
\* kept otherwise, and one ",00" at the end is dropped
SegunRegla(m) ==
    LET r == IF TerminaEnDosDigitos(m)
             THEN Reescrito(m, Char(m, UltimoSeparador(m)))
             ELSE Reescrito(m, "")
    IN  IF Len(r) >= 3 /\ SubSeq(r, Len(r) - 2, Len(r)) = ",00"
        THEN SubSeq(r, 1, Len(r) - 3)
        ELSE r

\* C12: for every non-empty text that is digits, "." and "," once its currency
\* symbols are stripped, limpiar_monto returns what the two-trailing-digit
\* rule gives: ending in a separator and exactly two digits, the later
\* separator is kept as "," and the other one removed (only ".": rewritten to
\* ","; only ",": left as is); otherwise every separator is removed; one
\* ",00" at the end is dropped.
C12_ReglaDosDigitos ==
    (monto_ret.exc = "" /\ monto_str.t = "str" /\ monto_str.s # "") =>
        monto_ret.ret = Str(SegunRegla(RemoveChars(monto_str.s, SimbolosMoneda)))

\* both separators occur, the point later and two digits after it: the comma
\* is removed and the point written as a comma
C12_Witness ==
    /\ monto_str = Str(",1.10")
    /\ monto_ret = Return(Str("1,10"))

====
